---- MODULE Spec2Model ----
(***************************************************************************)
(* Client-side logic of the edge dashboard: the history browser            *)
(* (static/js/history.js), the anomaly notification manager                *)
(* (static/js/notifications.js) and the realtime dashboard (the realtime   *)
(* module, unnamed/part_002).                                              *)
(*                                                                         *)
(* Each JavaScript handler runs to completion inside one event-loop turn,  *)
(* so each handler is one action.  An awaited fetch splits a handler in    *)
(* two: the part up to the fetch (the request is appended to inflight) and *)
(* the continuation that runs when the response, or the failure, arrives.  *)
(* A setTimeout callback is an action of its own, enabled while the timer  *)
(* is pending.                                                             *)
(***************************************************************************)
EXTENDS Integers, Sequences, FiniteSets, TLC

VARIABLES
    \* ---- history.js globals (lines 3-8) and the DOM it reads and writes
    selectedSession,     \* session id, or NoSession (null)
    signalSelect,        \* value of the #signalSelect control
    btnLoadDisabled,     \* #btnLoadHistory.disabled
    currentWindowSize,
    currentPosition,
    totalDataCount,
    maxSliderPosition,
    sliderMax,           \* #dataSlider.max
    chartsShown,         \* #historyChartsContainer is displayed
    rendered,            \* what renderHistoricalChart drew last, or NoRender
    inflight,            \* window fetches awaiting their response, in issue order
    cursorOwner,         \* history: <<session, signal>> the cursor was loaded from
    lastEvent,           \* history: the handler that ran last, with its request
    overtaken,           \* history: per outstanding fetch, whether a fetch issued
                         \*          after it has already been answered
    lateArrival,         \* history: the answer handled last was to an overtaken fetch
    lastGesture          \* history: if the handler that ran last was a navigation,
                         \*          a resize or a slider move, that call with the
                         \*          cursor it found; NoGesture otherwise

historyVars == <<selectedSession, signalSelect, btnLoadDisabled, currentWindowSize,
                 currentPosition, totalDataCount, maxSliderPosition, sliderMax,
                 chartsShown, rendered, inflight, cursorOwner, lastEvent,
                 overtaken, lateArrival, lastGesture>>

VARIABLES
    \* ---- notifications.js: NotificationManager and the DOM it manages
    notifications,       \* this.notifications: the entries, oldest first
    totalCount,          \* this.totalCount: anomalies pushed so far
    inDom,               \* entries attached to #notificationsContainer
    removalTimers,       \* pending 300 ms removal timers, in the order they were set
    counter,             \* the #notificationCounter badge
    closeClicks,         \* history: entries whose close button was clicked
    cleared,             \* history: entries dropped by clearAll
    spliced,             \* history: entries a removal timer took out of the buffer
    nClears,             \* history: clearAll calls so far
    nCloses,             \* history: close clicks so far
    lastNotifOp,         \* history: the handler of the manager that ran last
    lastShown            \* the anomaly pushed last and the details written on its
                         \* notification

notifVars == <<notifications, totalCount, inDom, removalTimers, counter, closeClicks,
               cleared, spliced, nClears, nCloses, lastNotifOp, lastShown>>

VARIABLES
    \* ---- realtime dashboard globals (part_002 lines 3-24) and its temperature chart
    shouldUpdateCharts,
    shouldUpdateCounters,
    acquisitionStartTime,  \* start of the acquisition, or NoTime (null)
    frozenStats,           \* [ecg, adc, packets, temp]
    temperatureHistory,    \* [values, times]; values in hundredths of a degree
    lastTemperature,       \* hundredths of a degree, or NoTemp (null)
    tempChart,             \* the trace last handed to Plotly for #tempChart: [y, x]
    tempValue              \* text of #tempValue

realtimeVars == <<shouldUpdateCharts, shouldUpdateCounters, acquisitionStartTime,
                  frozenStats, temperatureHistory, lastTemperature, tempChart, tempValue>>

VARIABLES
    \* ---- realtime dashboard: device status and the connection-error notification
    \*      (part_002 lines 638-756)
    deviceStatus,            \* text of the #deviceStatus badge, "" before any update
    connectionErrorShown,
    connectionErrorCooldown,
    errorElement,            \* the #connectionErrorNotification element attached to
                             \* the page, by creation number; 0 if there is none
    elementsCreated,         \* connection-error elements created so far
    connTimers,              \* pending timers of the notification, in the order set:
                             \* 300 ms removals and 2-minute cooldowns
    nDismissals,             \* history: clicks on the notification's close button
    cooldownOwner,           \* history: the element whose dismissal started the
                             \*          cooldown now running; 0 when none is running
    firedFor                 \* history: the element whose cooldown timer fired in
                             \*          the last step; 0 if the last step was another

connVars == <<deviceStatus, connectionErrorShown, connectionErrorCooldown, errorElement,
              elementsCreated, connTimers, nDismissals, cooldownOwner, firedFor>>

VARIABLES
    \* ---- debug view (part_002 lines 1087-1206)
    debugLogs,               \* the global debugLogs
    debugFilters,            \* the global debugFilters
    debugConsole,            \* the lines of #debugConsole, top to bottom
    debugLogCount,           \* the text of #debugLogCount
    systemLogListeners,      \* listeners registered for the 'system_log' push
    logFetches               \* outstanding fetches of /api/system/logs: the filters
                             \* each was asked with

debugVars == <<debugLogs, debugFilters, debugConsole, debugLogCount, systemLogListeners,
               logFetches>>

VARIABLES
    \* ---- models.js globals, the model list of the page and the server behind it
    currentModelType,
    availableModels,         \* the folders of the list received last
    selectedModelFolder,
    activeModelData,         \* the folder of the active model received last
    modelsList,              \* the folders of the radio buttons in #modelsList
    btnApplyModelDisabled,   \* #btnApplyModel.disabled
    modelFetches,            \* outstanding loadModels(type): the type of each
    activations,             \* outstanding POSTs of applyModelSelection
    reloadTimers,            \* pending 500 ms timers set after a successful activation
    serverActive,            \* the server: the active model of each type
    lastApplied              \* the type and folder applyModelSelection posted last

modelsVars == <<currentModelType, availableModels, selectedModelFolder, activeModelData,
                modelsList, btnApplyModelDisabled, modelFetches, activations,
                reloadTimers, serverActive, lastApplied>>

\* The scripts share no variable: what each leaves alone.
notHistory == <<notifVars, realtimeVars, connVars, debugVars, modelsVars>>

notNotif == <<historyVars, realtimeVars, connVars, debugVars, modelsVars>>

notRealtime == <<historyVars, notifVars, debugVars, modelsVars>>

notDebug == <<historyVars, notifVars, realtimeVars, connVars, modelsVars>>

notModels == <<historyVars, notifVars, realtimeVars, connVars, debugVars>>

----------------------------------------------------------------------------
\* Bounds of the model

\* fetches of the history view that may be outstanding at once
MaxInflight == 1

\* fetches that may be outstanding at once where answers race each other
MaxOutstanding == 2

\* anomalies pushed in one run
MaxPushes == 11

\* anomalies pushed in one run of the payload scenarios
MaxAnomalies == 2

\* close-button clicks in one run
MaxCloses == 1

\* clear-all clicks in one run
MaxClears == 1

\* temperature samples stored in one run of the long-running dashboard
MaxTempSamples == 1201

\* temperature samples stored in one run of the status scenarios
MaxStatusSamples == 3

\* clicks on the close button of the connection-error notification in one run
MaxDismissals == 2

\* times the debug view is opened in one run
MaxListeners == 2

\* fetches of the system logs outstanding at once
MaxLogFetches == 2

\* entries in one answer of the system-log query
MaxServerLogs == 2

\* entries of debugLogs beyond which no further push is taken
MaxDebugLogs == 4

\* fetches of the model lists outstanding at once
MaxModelFetches == 2

\* activation requests outstanding at once, and reload timers pending at once
MaxActivations == 1

\* connection-error elements created in one run
MaxElements == 2

\* timers of the connection-error notification pending at once
MaxConnTimers == 4

----------------------------------------------------------------------------
\* Helpers

Max(a, b) == IF a >= b THEN a ELSE b

Min(a, b) == IF a <= b THEN a ELSE b

RemoveAt(s, i) == [k \in 1..(Len(s) - 1) |-> IF k < i THEN s[k] ELSE s[k + 1]]

\* Temperatures are kept as the integer number of hundredths of a degree the
\* server sends; the code divides by 100.  (hundredths).toFixed(1) of a
\* non-negative temperature: rounded to tenths, one decimal.
ToFixed1(hundredths) ==
    LET tenths == (hundredths + 5) \div 10
    IN  ToString(tenths \div 10) \o "." \o ToString(tenths % 10)

----------------------------------------------------------------------------
\* The history view: inputs

NoSession == "null"

Sessions == {"s1", "s2"}

Signals == {"ECG", "TEMP"}

\* sizes offered by the window-size buttons; -1 is the full-dataset sentinel
WindowSizes == {1000, 2000, -1}

\* positions the user can drag the slider to: the control keeps its value in
\* [0, slider.max]
SliderStops(max) == {v \in {0, 500} : v <= max} \cup {max}

Directions == {"start", "prev", "next", "end"}

\* The server's archive: samples held per session and signal.
ServerCount(session, signal) ==
    CASE session = "s1" /\ signal = "ECG"  -> 2000
      [] session = "s1" /\ signal = "TEMP" -> 1000
      [] session = "s2" /\ signal = "ECG"  -> 1000
      [] OTHER                             -> 0

\* The windowed query of the server: the response to a request.
ServerWindow(req) ==
    LET total == ServerCount(req.session, req.signal)
    IN  [total_count  |-> total,
         max_position |-> Max(0, total - req.window_size),
         window_start |-> req.position,
         window_end   |-> Max(req.position, Min(req.position + req.window_size, total))]

\* The sessions of the archive: start_time and end_time of a session, in
\* milliseconds; both sessions are closed ones.
SessionStartMs(session) == 60000

SessionEndMs(session) == IF session = "s1" THEN 68000 ELSE 64000

\* a time that is no number (NaN, or an infinity): the label reads Invalid Date
NoInstant == -1

NoRender == [session |-> NoSession, signal |-> "none", window_start |-> 0,
             window_end |-> 0, total |-> 0, labelPosition |-> 0, numSamples |-> 0,
             firstSampleMs |-> 0, lastSampleMs |-> 0]

NoOwner == <<NoSession, "none">>

NoReq == [kind |-> "none", session |-> NoSession, signal |-> "none",
          position |-> 0, window_size |-> 0]

Event(kind, req) == [kind |-> kind, req |-> req]

Request(kind, session, signal, position, size) ==
    [kind |-> kind, session |-> session, signal |-> signal,
     position |-> position, window_size |-> size]

NoGesture == [op |-> "none", direction |-> "none", value |-> 0, position |-> 0,
              size |-> 0, after |-> "none"]

\* A call of changeWindowSize (value: the size), navigateData (direction) or
\* sliderNavigation (value: the slider's), with the position and window size it
\* found and, when it follows a navigation at once, that one's direction.
Gesture(op, direction, value) ==
    [op |-> op, direction |-> direction, value |-> value,
     position |-> currentPosition, size |-> currentWindowSize,
     after |-> lastGesture.direction]

\* The awaited fetch of request i settles: its continuation runs, notwithstanding
\* the fetches issued before it that are still outstanding.
Settles(i) ==
    /\ inflight' = RemoveAt(inflight, i)
    /\ overtaken' = [k \in 1..(Len(inflight) - 1) |->
                         IF k < i THEN TRUE ELSE overtaken[k + 1]]
    /\ lateArrival' = overtaken[i]

----------------------------------------------------------------------------
\* The history view: operations

\* a faulty time range: TEMP treated as a signal sampled at 1 Hz
TimeBoundsBySampleRate(signal, position, numSamples, total, session) ==
    LET sampleRate == IF signal = "TEMP" THEN 1 ELSE 250
    IN  [firstSampleMs |-> SessionStartMs(session) + (position * 1000) \div sampleRate,
         lastSampleMs  |-> SessionStartMs(session)
                               + ((position + numSamples - 1) * 1000) \div sampleRate]

\* firstSampleMs and lastSampleMs of renderHistoricalChart, in whole
\* milliseconds.  TEMP spreads the dataset over the session's duration, in
\* proportion to the position and to the number of samples drawn; ECG and ADC
\* count samples at 250 Hz.  A total of 0 divides by zero.
TimeBounds(signal, position, numSamples, total, session) ==
    LET sessionStartMs    == SessionStartMs(session)
        sessionDurationMs == SessionEndMs(session) - sessionStartMs
    IN  IF signal = "TEMP"
        THEN IF total = 0
             THEN [firstSampleMs |-> NoInstant, lastSampleMs |-> NoInstant]
             ELSE [firstSampleMs |-> sessionStartMs
                                         + (sessionDurationMs * position) \div total,
                   lastSampleMs  |-> sessionStartMs
                                         + (sessionDurationMs * (position + numSamples))
                                               \div total]
        ELSE [firstSampleMs |-> sessionStartMs + (position * 1000) \div 250,
              lastSampleMs  |-> sessionStartMs
                                    + ((position + numSamples - 1) * 1000) \div 250]

\* renderHistoricalChart(chartData, signal, windowStart, windowEnd): the
\* navigation indicator shows the response's index range with the global
\* totalDataCount; the time label is computed from the global currentPosition
\* and the global selectedSession.
RenderHistoricalChart(signal, data, total, position) ==
    [session       |-> selectedSession,
     signal        |-> signal,
     window_start  |-> data.window_start,
     window_end    |-> data.window_end,
     total         |-> total,
     labelPosition |-> position,
     numSamples    |-> data.window_end - data.window_start,
     firstSampleMs |-> TimeBounds(signal, position, data.window_end - data.window_start,
                                  total, selectedSession).firstSampleMs,
     lastSampleMs  |-> TimeBounds(signal, position, data.window_end - data.window_start,
                                  total, selectedSession).lastSampleMs]

SelectSession(s) ==
    /\ selectedSession' = s
    /\ btnLoadDisabled' = FALSE
    /\ lastEvent' = Event("selectSession", NoReq)
    /\ lastGesture' = NoGesture
    /\ UNCHANGED <<signalSelect, currentWindowSize, currentPosition, totalDataCount,
                   maxSliderPosition, sliderMax, chartsShown, rendered,
                   inflight, cursorOwner, overtaken, lateArrival>>
    /\ UNCHANGED notHistory

\* The user picks another entry of #signalSelect; no handler is attached.
SelectSignal(g) ==
    /\ g # signalSelect
    /\ signalSelect' = g
    /\ lastEvent' = Event("selectSignal", NoReq)
    /\ lastGesture' = NoGesture
    /\ UNCHANGED <<selectedSession, btnLoadDisabled, currentWindowSize, currentPosition,
                   totalDataCount, maxSliderPosition, sliderMax, chartsShown,
                   rendered, inflight, cursorOwner, overtaken, lateArrival>>
    /\ UNCHANGED notHistory

\* hideHistoryData(): resets the dataset variables, not the window size.
HideHistoryData ==
    /\ chartsShown' = FALSE
    /\ totalDataCount' = 0
    /\ maxSliderPosition' = 0
    /\ currentPosition' = 0
    /\ cursorOwner' = NoOwner
    /\ lastGesture' = NoGesture

\* dateSelect.onchange with the empty entry.
DateCleared ==
    /\ HideHistoryData
    /\ lastEvent' = Event("hide", NoReq)
    /\ UNCHANGED <<selectedSession, signalSelect, btnLoadDisabled, currentWindowSize,
                   sliderMax, rendered, inflight, overtaken, lateArrival>>
    /\ UNCHANGED notHistory

\* loadHistoricalData() up to its fetch.
LoadHistoricalData ==
    /\ selectedSession # NoSession
    /\ ~btnLoadDisabled
    /\ LET req == Request("load", selectedSession, signalSelect, 0, currentWindowSize)
       IN  /\ inflight' = Append(inflight, req)
           /\ lastEvent' = Event("request", req)
    /\ overtaken' = Append(overtaken, FALSE)
    /\ lastGesture' = NoGesture
    /\ btnLoadDisabled' = TRUE
    /\ UNCHANGED <<selectedSession, signalSelect, currentWindowSize, currentPosition,
                   totalDataCount, maxSliderPosition, sliderMax, chartsShown,
                   rendered, cursorOwner, lateArrival>>
    /\ UNCHANGED notHistory

\* displayHistoricalData(data, signal)
DisplayHistoricalData(req, data) ==
    /\ totalDataCount' = data.total_count
    /\ maxSliderPosition' = data.max_position
    /\ currentPosition' = data.window_start
    /\ chartsShown' = TRUE
    /\ sliderMax' = data.max_position
    /\ rendered' = RenderHistoricalChart(req.signal, data, data.total_count,
                                         data.window_start)
    /\ cursorOwner' = <<req.session, req.signal>>
    /\ lastGesture' = NoGesture

\* loadHistoricalData() after its fetch resolved.
LoadResponse(i) ==
    /\ i \in 1..Len(inflight)
    /\ inflight[i].kind = "load"
    /\ LET req  == inflight[i]
           data == ServerWindow(req)
       IN  /\ IF data.total_count > 0
              THEN DisplayHistoricalData(req, data)
              ELSE HideHistoryData /\ UNCHANGED <<sliderMax, rendered>>
           /\ lastEvent' = Event(IF data.total_count > 0 THEN "loaded" ELSE "empty",
                                 req)
    /\ Settles(i)
    /\ btnLoadDisabled' = FALSE
    /\ UNCHANGED <<selectedSession, signalSelect, currentWindowSize>>
    /\ UNCHANGED notHistory

\* loadHistoricalData() after its fetch was rejected.
LoadFailure(i) ==
    /\ i \in 1..Len(inflight)
    /\ inflight[i].kind = "load"
    /\ HideHistoryData
    /\ lastEvent' = Event("loadFailed", inflight[i])
    /\ Settles(i)
    /\ btnLoadDisabled' = FALSE
    /\ UNCHANGED <<selectedSession, signalSelect, currentWindowSize, sliderMax, rendered>>
    /\ UNCHANGED notHistory

\* reloadWindowedData() up to its fetch, entered with the cursor already moved
\* to (position, size).  With no session selected, building the URL throws
\* inside the try block and nothing is sent.
ReloadWindowedData(op, position, size) ==
    IF selectedSession = NoSession
    THEN /\ UNCHANGED <<inflight, overtaken>>
         /\ lastEvent' = Event(op, NoReq)
    ELSE LET req == Request("reload", selectedSession, signalSelect, position, size)
         IN  /\ inflight' = Append(inflight, req)
             /\ overtaken' = Append(overtaken, FALSE)
             /\ lastEvent' = Event("request", req)

\* a faulty resize: the position is left where it was
ChangeWindowSizeInPlace(newSize) ==
    /\ currentWindowSize' = IF newSize = -1 THEN totalDataCount ELSE newSize
    /\ currentPosition' = currentPosition
    /\ ReloadWindowedData("changeWindowSize", currentPosition', currentWindowSize')
    /\ lastGesture' = Gesture("changeWindowSize", "none", newSize)
    /\ UNCHANGED <<selectedSession, signalSelect, btnLoadDisabled, totalDataCount,
                   maxSliderPosition, sliderMax, chartsShown, rendered,
                   cursorOwner, lateArrival>>
    /\ UNCHANGED notHistory

\* changeWindowSize(newSize)
ChangeWindowSize(newSize) ==
    /\ IF newSize = -1
       THEN /\ currentWindowSize' = totalDataCount
            /\ currentPosition' = 0
       ELSE /\ currentWindowSize' = newSize
            /\ currentPosition' =
                   IF currentPosition + newSize > totalDataCount
                   THEN Max(0, totalDataCount - newSize)
                   ELSE currentPosition
    /\ ReloadWindowedData("changeWindowSize", currentPosition', currentWindowSize')
    /\ lastGesture' = Gesture("changeWindowSize", "none", newSize)
    /\ UNCHANGED <<selectedSession, signalSelect, btnLoadDisabled, totalDataCount,
                   maxSliderPosition, sliderMax, chartsShown, rendered,
                   cursorOwner, lateArrival>>
    /\ UNCHANGED notHistory

\* a faulty navigation: 'next' is not held back at the last position
NavigateDataPastEnd(direction) ==
    /\ LET step == currentWindowSize \div 2
       IN  currentPosition' =
               CASE direction = "start" -> 0
                 [] direction = "prev"  -> Max(0, currentPosition - step)
                 [] direction = "next"  -> currentPosition + step
                 [] direction = "end"   -> maxSliderPosition
    /\ ReloadWindowedData("navigateData", currentPosition', currentWindowSize)
    /\ lastGesture' = Gesture("navigateData", direction, 0)
    /\ UNCHANGED <<selectedSession, signalSelect, btnLoadDisabled, currentWindowSize,
                   totalDataCount, maxSliderPosition, sliderMax, chartsShown, rendered,
                   cursorOwner, lateArrival>>
    /\ UNCHANGED notHistory

\* a faulty navigation: 'next' beyond the last position wraps to the start
NavigateDataWraps(direction) ==
    /\ LET step == currentWindowSize \div 2
       IN  currentPosition' =
               CASE direction = "start" -> 0
                 [] direction = "prev"  -> Max(0, currentPosition - step)
                 [] direction = "next"  -> IF currentPosition + step > maxSliderPosition
                                           THEN 0 ELSE currentPosition + step
                 [] direction = "end"   -> maxSliderPosition
    /\ ReloadWindowedData("navigateData", currentPosition', currentWindowSize)
    /\ lastGesture' = Gesture("navigateData", direction, 0)
    /\ UNCHANGED <<selectedSession, signalSelect, btnLoadDisabled, currentWindowSize,
                   totalDataCount, maxSliderPosition, sliderMax, chartsShown, rendered,
                   cursorOwner, lateArrival>>
    /\ UNCHANGED notHistory

\* navigateData(direction)
NavigateData(direction) ==
    /\ LET step == currentWindowSize \div 2
       IN  currentPosition' =
               CASE direction = "start" -> 0
                 [] direction = "prev"  -> Max(0, currentPosition - step)
                 [] direction = "next"  -> Min(maxSliderPosition, currentPosition + step)
                 [] direction = "end"   -> maxSliderPosition
    /\ ReloadWindowedData("navigateData", currentPosition', currentWindowSize)
    /\ lastGesture' = Gesture("navigateData", direction, 0)
    /\ UNCHANGED <<selectedSession, signalSelect, btnLoadDisabled, currentWindowSize,
                   totalDataCount, maxSliderPosition, sliderMax, chartsShown, rendered,
                   cursorOwner, lateArrival>>
    /\ UNCHANGED notHistory

\* sliderNavigation(value): the slider's input handler.
SliderNavigation(value) ==
    /\ currentPosition' = value
    /\ ReloadWindowedData("sliderNavigation", value, currentWindowSize)
    /\ lastGesture' = Gesture("sliderNavigation", "none", value)
    /\ UNCHANGED <<selectedSession, signalSelect, btnLoadDisabled, currentWindowSize,
                   totalDataCount, maxSliderPosition, sliderMax, chartsShown, rendered,
                   cursorOwner, lateArrival>>
    /\ UNCHANGED notHistory

\* a reload that draws nothing for the answer to an overtaken fetch
ReloadResponseLatestOnly(i) ==
    /\ i \in 1..Len(inflight)
    /\ inflight[i].kind = "reload"
    /\ LET req  == inflight[i]
           data == ServerWindow(req)
       IN  /\ IF data.total_count > 0 /\ ~overtaken[i]
              THEN /\ sliderMax' = data.max_position
                   /\ rendered' = RenderHistoricalChart(req.signal, data, totalDataCount,
                                                        currentPosition)
              ELSE UNCHANGED <<sliderMax, rendered>>
           /\ lastEvent' = Event(IF data.total_count > 0 THEN "reloaded" ELSE "reloadEmpty",
                                 req)
    /\ Settles(i)
    /\ lastGesture' = NoGesture
    /\ UNCHANGED <<selectedSession, signalSelect, btnLoadDisabled, currentWindowSize,
                   currentPosition, totalDataCount, maxSliderPosition, chartsShown,
                   cursorOwner>>
    /\ UNCHANGED notHistory

\* reloadWindowedData() after its fetch resolved.
ReloadResponse(i) ==
    /\ i \in 1..Len(inflight)
    /\ inflight[i].kind = "reload"
    /\ LET req  == inflight[i]
           data == ServerWindow(req)
       IN  /\ IF data.total_count > 0
              THEN /\ sliderMax' = data.max_position
                   /\ rendered' = RenderHistoricalChart(req.signal, data, totalDataCount,
                                                        currentPosition)
              ELSE UNCHANGED <<sliderMax, rendered>>
           /\ lastEvent' = Event(IF data.total_count > 0 THEN "reloaded" ELSE "reloadEmpty",
                                 req)
    /\ Settles(i)
    /\ lastGesture' = NoGesture
    /\ UNCHANGED <<selectedSession, signalSelect, btnLoadDisabled, currentWindowSize,
                   currentPosition, totalDataCount, maxSliderPosition, chartsShown,
                   cursorOwner>>
    /\ UNCHANGED notHistory

\* reloadWindowedData() after its fetch was rejected: logged only.
ReloadFailure(i) ==
    /\ i \in 1..Len(inflight)
    /\ inflight[i].kind = "reload"
    /\ lastEvent' = Event("reloadFailed", inflight[i])
    /\ Settles(i)
    /\ lastGesture' = NoGesture
    /\ UNCHANGED <<selectedSession, signalSelect, btnLoadDisabled, currentWindowSize,
                   currentPosition, totalDataCount, maxSliderPosition, sliderMax,
                   chartsShown, rendered, cursorOwner>>
    /\ UNCHANGED notHistory

HistoryInit ==
    /\ selectedSession = NoSession
    /\ signalSelect = "ECG"
    /\ btnLoadDisabled = TRUE
    /\ currentWindowSize = 1000
    /\ currentPosition = 0
    /\ totalDataCount = 0
    /\ maxSliderPosition = 0
    /\ sliderMax = 0
    /\ chartsShown = FALSE
    /\ rendered = NoRender
    /\ inflight = <<>>
    /\ cursorOwner = NoOwner
    /\ lastEvent = Event("init", NoReq)
    /\ overtaken = <<>>
    /\ lateArrival = FALSE
    /\ lastGesture = NoGesture

\* One step of the history view: a user gesture on the sessions, signals and
\* window sizes given, with fewer than cap fetches outstanding, or the arrival
\* of an outstanding response or failure.
HistoryStep(cap, sessions, signals, sizes) ==
    \/ \E s \in sessions : SelectSession(s)
    \/ \E g \in signals : SelectSignal(g)
    \/ DateCleared
    \/ Len(inflight) < cap /\ LoadHistoricalData
    \/ \E i \in 1..cap : LoadResponse(i)
    \/ \E i \in 1..cap : LoadFailure(i)
    \/ Len(inflight) < cap /\ \E n \in sizes : ChangeWindowSize(n)
    \/ Len(inflight) < cap /\ \E d \in Directions : NavigateData(d)
    \/ Len(inflight) < cap /\ \E v \in SliderStops(sliderMax) : SliderNavigation(v)
    \/ \E i \in 1..cap : ReloadResponse(i)
    \/ \E i \in 1..cap : ReloadFailure(i)

HistoryNext == HistoryStep(MaxInflight, Sessions, Signals, WindowSizes)

\* One step of browsing one session's dataset of the signal selected at the
\* start: loading it, moving and resizing the window on the sizes given, with
\* fewer than cap fetches outstanding, or the arrival of an answer, in any order.
BrowseStep(cap, session, sizes) ==
    \/ selectedSession = NoSession /\ SelectSession(session)
    \/ Len(inflight) < cap /\ LoadHistoricalData
    \/ \E i \in 1..cap : LoadResponse(i)
    \/ Len(inflight) < cap /\ \E n \in sizes : ChangeWindowSize(n)
    \/ Len(inflight) < cap /\ \E d \in Directions : NavigateData(d)
    \/ Len(inflight) < cap /\ \E v \in SliderStops(sliderMax) : SliderNavigation(v)
    \/ \E i \in 1..cap : ReloadResponse(i)

\* Browsing session s1 with answers free to race each other
RaceNext == BrowseStep(MaxOutstanding, "s1", {1000, -1})

\* Browsing the temperature of session s1: TEMP is picked before the session
TempBrowseNext ==
    \/ selectedSession = NoSession /\ SelectSignal("TEMP")
    \/ BrowseStep(MaxInflight, "s1", {1000, 2000, -1})


----------------------------------------------------------------------------
\* The notification manager

maxNotifications == 10

\* An entry is named by the number of the push that created it.
NoCounter == [exists |-> FALSE, text |-> "", shown |-> FALSE]

Range(list) == {list[k] : k \in 1..Len(list)}

Last(list) == list[Len(list)]

\* faulty eviction tests: one that never evicts, one that evicts an entry early
OverflowsNever(list) == FALSE

OverflowsEarly(list) == Len(list) >= maxNotifications

\* the eviction test of showNotification
Overflows(list) == Len(list) > maxNotifications

\* a faulty eviction: pop, which takes the newest entry out
ShiftedNewest(list) == [old |-> Last(list), rest |-> SubSeq(list, 1, Len(list) - 1)]

\* Array.prototype.shift: the entry taken out and the rest
Shifted(list) == [old |-> Head(list), rest |-> Tail(list)]

\* removeNotification(notification), up to its setTimeout: an entry that is
\* no longer attached is ignored, any other gets a removal timer.
RemoveNotification(timers, dom, n) ==
    IF n \in dom THEN Append(timers, n) ELSE timers

\* removeNotification for each entry of a list, in order
RECURSIVE RemoveEach(_, _, _)
RemoveEach(timers, dom, list) ==
    IF list = <<>> THEN timers
    ELSE RemoveEach(RemoveNotification(timers, dom, Head(list)), dom, Tail(list))

\* the text updateCounter writes into the badge
CounterText(n) == IF n > 99 THEN "99+" ELSE ToString(n)

\* updateCounter(), given the buffer and totalCount as they are when it runs
UpdatedCounter(old, list, total) ==
    IF old.exists \/ total > 0
    THEN [exists |-> TRUE, text |-> CounterText(Len(list)), shown |-> Len(list) # 0]
    ELSE old

\* a faulty splice: with no index check, splice(-1, 1) takes the last entry
\* out when n is not in the buffer
WithoutOrLast(list, n) ==
    IF n \in Range(list) THEN SelectSeq(list, LAMBDA x : x # n)
    ELSE SubSeq(list, 1, Len(list) - 1)

\* the splice of the timer callback: the buffer without entry n
Without(list, n) == SelectSeq(list, LAMBDA x : x # n)

\* ---- the text of a notification

\* a numeric field the payload does not carry (undefined or null); the numbers
\* carried are not negative
Undefined == -1

\* a severity the payload does not carry
NoSeverity == ""

\* new_anomaly payloads: reconstruction_error and the threshold of ecg and piezo
\* in ten-thousandths, temperature and the threshold of temp in hundredths of
\* a degree
Anomaly(type, reconstruction_error, threshold, temperature, severity) ==
    [type |-> type, reconstruction_error |-> reconstruction_error,
     threshold |-> threshold, temperature |-> temperature, severity |-> severity]

\* a faulty default: the field as it came
OrNothing(v) == v

\* v ?? 0
OrZero(v) == IF v = Undefined THEN 0 ELSE v

\* (x).toFixed(4) of x = tenThousandths / 10000
ToFixed4(tenThousandths) ==
    LET fraction == tenThousandths % 10000
    IN  ToString(tenThousandths \div 10000) \o "."
            \o ToString(fraction \div 1000) \o ToString((fraction \div 100) % 10)
            \o ToString((fraction \div 10) % 10) \o ToString(fraction % 10)

\* (severity || 'unknown').toUpperCase()
SeverityText(severity) ==
    CASE severity = NoSeverity -> "UNKNOWN"
      [] severity = "severe"   -> "SEVERE"
      [] severity = "moderate" -> "MODERATE"
      [] OTHER                 -> "MILD"

Detail(label, value) == [label |-> label, value |-> value]

\* the details showNotification builds for the three types; the time of day
\* and the unit after a temperature are left off
NotificationDetails(anomalyData) ==
    IF anomalyData.type = "temp"
    THEN <<Detail("Temperatura", ToFixed1(OrZero(anomalyData.temperature))),
           Detail("Soglia", ToFixed1(OrZero(anomalyData.threshold))),
           Detail("Severita", SeverityText(anomalyData.severity))>>
    ELSE <<Detail("Errore", ToFixed4(OrZero(anomalyData.reconstruction_error))),
           Detail("Soglia", ToFixed4(OrZero(anomalyData.threshold)))>>

NoShown == [anomaly |-> Anomaly("none", Undefined, Undefined, Undefined, NoSeverity),
            details |-> <<>>]

\* a notification that expires by itself: the push also starts the removal of
\* the new entry
ShowNotificationExpiring(anomalyData) ==
    /\ lastShown' = [anomaly |-> anomalyData, details |-> NotificationDetails(anomalyData)]
    /\ totalCount' = totalCount + 1
    /\ LET n      == totalCount + 1
           pushed == Append(notifications, n)
           dom    == inDom \cup {n}
       IN  /\ inDom' = dom
           /\ IF Overflows(pushed)
              THEN /\ notifications' = Shifted(pushed).rest
                   /\ removalTimers' =
                          Append(RemoveNotification(removalTimers, dom, Shifted(pushed).old), n)
              ELSE /\ notifications' = pushed
                   /\ removalTimers' = Append(removalTimers, n)
    /\ counter' = UpdatedCounter(counter, notifications', totalCount')
    /\ lastNotifOp' = "push"
    /\ UNCHANGED <<closeClicks, cleared, spliced, nClears, nCloses>>
    /\ UNCHANGED notNotif

\* showNotification(anomalyData), on the new_anomaly push
ShowNotification(anomalyData) ==
    /\ lastShown' = [anomaly |-> anomalyData, details |-> NotificationDetails(anomalyData)]
    /\ totalCount' = totalCount + 1
    /\ LET n      == totalCount + 1
           pushed == Append(notifications, n)
           dom    == inDom \cup {n}
       IN  /\ inDom' = dom
           /\ IF Overflows(pushed)
              THEN /\ notifications' = Shifted(pushed).rest
                   /\ removalTimers' =
                          RemoveNotification(removalTimers, dom, Shifted(pushed).old)
              ELSE /\ notifications' = pushed
                   /\ removalTimers' = removalTimers
    /\ counter' = UpdatedCounter(counter, notifications', totalCount')
    /\ lastNotifOp' = "push"
    /\ UNCHANGED <<closeClicks, cleared, spliced, nClears, nCloses>>
    /\ UNCHANGED notNotif

\* the close button of entry n: removeNotification(notification)
CloseClicked(n) ==
    /\ n \in inDom
    /\ removalTimers' = RemoveNotification(removalTimers, inDom, n)
    /\ closeClicks' = closeClicks \cup {n}
    /\ nCloses' = nCloses + 1
    /\ lastNotifOp' = "close"
    /\ UNCHANGED <<notifications, totalCount, inDom, counter, cleared, spliced, nClears>>
    /\ UNCHANGED lastShown
    /\ UNCHANGED notNotif

\* the callback of the oldest pending removal timer: detaches the entry and
\* splices it out of the buffer if it is still there; the badge is not touched.
RemovalTimerFires ==
    /\ removalTimers # <<>>
    /\ LET n == Head(removalTimers)
       IN  /\ inDom' = inDom \ {n}
           /\ notifications' = Without(notifications, n)
           /\ spliced' = IF n \in Range(notifications) THEN spliced \cup {n} ELSE spliced
           /\ lastNotifOp' = IF n \in Range(notifications) THEN "removed" ELSE "timer"
    /\ removalTimers' = Tail(removalTimers)
    /\ UNCHANGED <<totalCount, counter, closeClicks, cleared, nClears, nCloses>>
    /\ UNCHANGED lastShown
    /\ UNCHANGED notNotif

\* clearAll(), from the clear-all button or a click on the badge
ClearAll ==
    /\ removalTimers' = RemoveEach(removalTimers, inDom, notifications)
    /\ notifications' = <<>>
    /\ counter' = UpdatedCounter(counter, <<>>, totalCount)
    /\ cleared' = cleared \cup Range(notifications)
    /\ nClears' = nClears + 1
    /\ lastNotifOp' = "clear"
    /\ UNCHANGED <<totalCount, inDom, closeClicks, spliced, nCloses>>
    /\ UNCHANGED lastShown
    /\ UNCHANGED notNotif

NotifInit ==
    /\ notifications = <<>>
    /\ totalCount = 0
    /\ inDom = {}
    /\ removalTimers = <<>>
    /\ counter = NoCounter
    /\ closeClicks = {}
    /\ cleared = {}
    /\ spliced = {}
    /\ nClears = 0
    /\ nCloses = 0
    /\ lastNotifOp = "init"
    /\ lastShown = NoShown

\* One step of the notification manager: a push of one of the anomalies given
\* while fewer than cap were pushed, a click, or a removal timer firing.
NotifStep(cap, anomalies) ==
    \/ totalCount < cap /\ \E a \in anomalies : ShowNotification(a)
    \/ nCloses < MaxCloses /\ \E n \in inDom : CloseClicked(n)
    \/ RemovalTimerFires
    \/ nClears < MaxClears /\ ClearAll

\* A run of complete ECG anomalies, long enough to fill the buffer
NotifNext == NotifStep(MaxPushes, {Anomaly("ecg", 1234, 500, Undefined, NoSeverity)})

\* the payloads of the three types, each numeric field carried or not
Anomalies ==
    {Anomaly(t, e, h, Undefined, NoSeverity) :
         t \in {"ecg", "piezo"}, e \in {Undefined, 1234}, h \in {Undefined, 500}}
    \cup {Anomaly("temp", Undefined, h, c, v) :
              h \in {Undefined, 3750}, c \in {Undefined, 3870}, v \in {NoSeverity, "severe"}}

\* A few anomalies of any type, complete or not
AnomalyNext == NotifStep(MaxAnomalies, Anomalies)


----------------------------------------------------------------------------
\* The realtime dashboard: temperature history and statistics

MAX_TEMP_DISPLAY == 1200

NoTime == "null"

\* null in a temperature field; temperatures themselves are not negative
NoTemp == -1

InitialStats == [ecg |-> 0, adc |-> 0, packets |-> 0, temp |-> "--"]

EmptyHistory == [values |-> <<>>, times |-> <<>>]

EmptyChart == [y |-> <<>>, x |-> <<>>]

\* Math.abs(tempC - lastTemperature) > 0.01
TempChanged(a, b) == (IF a >= b THEN a - b ELSE b - a) > 1

\* a faulty slice: the whole array
SliceAll(list, n) == list

\* Array.prototype.slice(-n): the last n entries
SliceLast(list, n) ==
    IF Len(list) <= n THEN list ELSE SubSeq(list, Len(list) - n + 1, Len(list))

\* a faulty push: the time is taken from the length after the push
PushTemperatureOneBased(history, temp) ==
    LET values == Append(history.values, temp)
    IN  [values |-> values, times |-> Append(history.times, Len(values) * 2)]

\* values.push(temp); times.push((values.length - 1) * 2)
PushTemperature(history, temp) ==
    LET values == Append(history.values, temp)
    IN  [values |-> values, times |-> Append(history.times, (Len(values) - 1) * 2)]

\* the trace drawn on #tempChart from the history
TemperatureTrace(history) ==
    [y |-> SliceLast(history.values, MAX_TEMP_DISPLAY),
     x |-> SliceLast(history.times, MAX_TEMP_DISPLAY)]

\* ---- device status and the connection-error notification

NoTimers == <<>>

\* a pending setTimeout of the connection-error notification: the 300 ms
\* removal of an element ("remove") or the 2-minute end of a cooldown
\* ("cooldown"), with the element it was set for
ConnTimer(kind, element) == [kind |-> kind, element |-> element]

\* showConnectionErrorNotification(): nothing if an element is still attached,
\* otherwise a new element is created and attached.  Gives <<element attached,
\* elements created>>.
ShowConnectionErrorNotification(attached, created) ==
    IF attached # 0 THEN <<attached, created>> ELSE <<created + 1, created + 1>>

\* removeConnectionErrorNotification(): a 300 ms timer for the element
\* attached, if there is one.
RemoveConnectionErrorNotification(timers, attached) ==
    IF attached # 0 THEN Append(timers, ConnTimer("remove", attached)) ELSE timers

\* updateDeviceStatus(connected)
UpdateDeviceStatus(connected) ==
    IF connected
    THEN /\ deviceStatus' = "Connected"
         /\ connTimers' = IF connectionErrorShown
                          THEN RemoveConnectionErrorNotification(connTimers, errorElement)
                          ELSE connTimers
         /\ connectionErrorShown' = FALSE
         /\ connectionErrorCooldown' = FALSE
         /\ cooldownOwner' = 0
         /\ UNCHANGED <<errorElement, elementsCreated>>
    ELSE /\ deviceStatus' = "Disconnected"
         /\ IF ~connectionErrorShown /\ ~connectionErrorCooldown
            THEN /\ errorElement' =
                        ShowConnectionErrorNotification(errorElement, elementsCreated)[1]
                 /\ elementsCreated' =
                        ShowConnectionErrorNotification(errorElement, elementsCreated)[2]
                 /\ connectionErrorShown' = TRUE
            ELSE UNCHANGED <<errorElement, elementsCreated, connectionErrorShown>>
         /\ UNCHANGED <<connTimers, connectionErrorCooldown, cooldownOwner>>

\* socket 'device_status'
DeviceStatus(connected) ==
    /\ UpdateDeviceStatus(connected)
    /\ firedFor' = 0
    /\ UNCHANGED nDismissals
    /\ UNCHANGED realtimeVars
    /\ UNCHANGED notRealtime

\* closeConnectionError(), from the close button of the element attached
CloseConnectionError ==
    /\ errorElement # 0
    /\ connectionErrorShown' = FALSE
    /\ connectionErrorCooldown' = TRUE
    /\ connTimers' = Append(RemoveConnectionErrorNotification(connTimers, errorElement),
                            ConnTimer("cooldown", errorElement))
    /\ nDismissals' = nDismissals + 1
    /\ cooldownOwner' = errorElement
    /\ firedFor' = 0
    /\ UNCHANGED <<deviceStatus, errorElement, elementsCreated>>
    /\ UNCHANGED realtimeVars
    /\ UNCHANGED notRealtime

\* the callback of a 300 ms removal timer, the oldest of them pending: detaches
\* its element if that is still attached
ErrorRemovalTimerFires(i) ==
    /\ i \in 1..Len(connTimers)
    /\ connTimers[i].kind = "remove"
    /\ \A k \in 1..(i - 1) : connTimers[k].kind # "remove"
    /\ errorElement' = IF errorElement = connTimers[i].element THEN 0 ELSE errorElement
    /\ connTimers' = RemoveAt(connTimers, i)
    /\ firedFor' = 0
    /\ UNCHANGED <<deviceStatus, connectionErrorShown, connectionErrorCooldown,
                   elementsCreated, nDismissals, cooldownOwner>>
    /\ UNCHANGED realtimeVars
    /\ UNCHANGED notRealtime

\* the callback of a 2-minute cooldown timer; it is due once every timer set
\* before it has fired
CooldownTimerFires ==
    /\ connTimers # NoTimers
    /\ Head(connTimers).kind = "cooldown"
    /\ connectionErrorCooldown' = FALSE
    /\ IF deviceStatus = "Disconnected" /\ ~connectionErrorShown
       THEN /\ errorElement' =
                   ShowConnectionErrorNotification(errorElement, elementsCreated)[1]
            /\ elementsCreated' =
                   ShowConnectionErrorNotification(errorElement, elementsCreated)[2]
            /\ connectionErrorShown' = TRUE
       ELSE UNCHANGED <<errorElement, elementsCreated, connectionErrorShown>>
    /\ connTimers' = Tail(connTimers)
    /\ firedFor' = Head(connTimers).element
    /\ cooldownOwner' =
           IF \E k \in 1..Len(connTimers') :
                  connTimers'[k] = ConnTimer("cooldown", cooldownOwner)
           THEN cooldownOwner ELSE 0
    /\ UNCHANGED <<deviceStatus, nDismissals>>
    /\ UNCHANGED realtimeVars
    /\ UNCHANGED notRealtime

\* ---- temperature history and statistics

\* socket 'data_update' with signal TEMP: updateChart('TEMP', data) runs whatever
\* shouldUpdateCharts is; samples is data.y[0], and an empty one draws nothing.
DataUpdateTemp(samples) ==
    /\ IF samples = <<>>
       THEN UNCHANGED <<temperatureHistory, tempChart, tempValue>>
       ELSE /\ temperatureHistory' = PushTemperature(temperatureHistory, Head(samples))
            /\ tempValue' = ToFixed1(Head(samples))
            /\ tempChart' = TemperatureTrace(temperatureHistory')
    /\ UNCHANGED <<shouldUpdateCharts, shouldUpdateCounters, acquisitionStartTime,
                   frozenStats, lastTemperature>>
    /\ UNCHANGED connVars
    /\ UNCHANGED notRealtime

\* a faulty updateStatistics, without the early return on the flag
UpdateStatisticsUnguarded(data) ==
    /\ frozenStats' = [ecg     |-> data.ecg,
                       adc     |-> data.adc,
                       packets |-> data.packets,
                       temp    |-> IF data.temp = NoTemp THEN frozenStats.temp
                                   ELSE ToFixed1(data.temp)]
    /\ tempValue' = IF data.temp = NoTemp THEN tempValue ELSE ToFixed1(data.temp)
    /\ IF data.temp # NoTemp /\ (lastTemperature = NoTemp
                                   \/ TempChanged(data.temp, lastTemperature))
       THEN /\ lastTemperature' = data.temp
            /\ temperatureHistory' = PushTemperature(temperatureHistory, data.temp)
            /\ tempChart' = TemperatureTrace(temperatureHistory')
       ELSE UNCHANGED <<lastTemperature, temperatureHistory, tempChart>>

\* updateStatistics(data); data = [temp, ecg, adc, packets], temp = NoTemp for
\* a null current_temp.  The primed variables it sets are all but the flags.
UpdateStatistics(data) ==
    IF ~shouldUpdateCounters
    THEN UNCHANGED <<frozenStats, temperatureHistory, lastTemperature, tempChart, tempValue>>
    ELSE /\ frozenStats' = [ecg     |-> data.ecg,
                            adc     |-> data.adc,
                            packets |-> data.packets,
                            temp    |-> IF data.temp = NoTemp THEN frozenStats.temp
                                        ELSE ToFixed1(data.temp)]
         /\ tempValue' = IF data.temp = NoTemp THEN tempValue ELSE ToFixed1(data.temp)
         /\ IF data.temp # NoTemp /\ (lastTemperature = NoTemp
                                        \/ TempChanged(data.temp, lastTemperature))
            THEN /\ lastTemperature' = data.temp
                 /\ temperatureHistory' = PushTemperature(temperatureHistory, data.temp)
                 /\ tempChart' = TemperatureTrace(temperatureHistory')
            ELSE UNCHANGED <<lastTemperature, temperatureHistory, tempChart>>

\* socket 'status_update'
StatusUpdate(data) ==
    /\ UpdateStatistics(data)
    /\ UNCHANGED <<shouldUpdateCharts, shouldUpdateCounters, acquisitionStartTime>>
    /\ UNCHANGED connVars
    /\ UNCHANGED notRealtime

\* socket 'acquisition_status'
AcquisitionStatus(acquiring, start_time) ==
    /\ shouldUpdateCharts' = acquiring
    /\ shouldUpdateCounters' = acquiring
    /\ acquisitionStartTime' =
           IF acquiring /\ start_time # NoTime THEN start_time ELSE acquisitionStartTime
    /\ UNCHANGED <<frozenStats, temperatureHistory, lastTemperature, tempChart, tempValue>>
    /\ UNCHANGED connVars
    /\ UNCHANGED notRealtime

\* the 5 s poll of /api/status, when its response arrives
PollStatus(data, device_connected, is_acquiring) ==
    /\ UpdateDeviceStatus(device_connected)
    /\ firedFor' = 0
    /\ UNCHANGED nDismissals
    /\ UpdateStatistics(data)
    /\ shouldUpdateCharts' = is_acquiring
    /\ shouldUpdateCounters' = is_acquiring
    /\ UNCHANGED acquisitionStartTime
    /\ UNCHANGED notRealtime

\* the answer to the Start (on = TRUE) or Stop (on = FALSE) command
ControlAnswered(on) ==
    /\ shouldUpdateCharts' = on
    /\ shouldUpdateCounters' = on
    /\ UNCHANGED <<acquisitionStartTime, frozenStats, temperatureHistory, lastTemperature,
                   tempChart, tempValue>>
    /\ UNCHANGED connVars
    /\ UNCHANGED notRealtime

\* performReset()
PerformReset ==
    /\ acquisitionStartTime' = NoTime
    /\ temperatureHistory' = EmptyHistory
    /\ lastTemperature' = NoTemp
    /\ frozenStats' = InitialStats
    /\ tempValue' = "--"
    /\ tempChart' = EmptyChart
    /\ UNCHANGED <<shouldUpdateCharts, shouldUpdateCounters>>
    /\ UNCHANGED connVars
    /\ UNCHANGED notRealtime

RealtimeInit ==
    /\ shouldUpdateCharts = FALSE
    /\ shouldUpdateCounters = FALSE
    /\ acquisitionStartTime = NoTime
    /\ frozenStats = InitialStats
    /\ temperatureHistory = EmptyHistory
    /\ lastTemperature = NoTemp
    /\ tempChart = EmptyChart
    /\ tempValue = "--"

ConnInit ==
    /\ deviceStatus = ""
    /\ connectionErrorShown = FALSE
    /\ connectionErrorCooldown = FALSE
    /\ errorElement = 0
    /\ elementsCreated = 0
    /\ connTimers = NoTimers
    /\ nDismissals = 0
    /\ cooldownOwner = 0
    /\ firedFor = 0

\* status snapshots with the temperatures and sample counts given
Snapshots(temps, counts) ==
    {[temp |-> t, ecg |-> c, adc |-> c, packets |-> c] : t \in temps, c \in counts}

\* there is room for one more element and one more timer of the
\* connection-error notification
ConnRoom == elementsCreated < MaxElements /\ Len(connTimers) < MaxConnTimers

\* One step of the realtime dashboard, on temperatures and counts from the
\* sets given and with the device reported as in links, while the history holds
\* fewer than cap samples.
RealtimeStep(cap, temps, counts, links) ==
    \/ /\ Len(temperatureHistory.values) < cap
       /\ \E t \in temps : DataUpdateTemp(<<t>>)
    \/ DataUpdateTemp(<<>>)
    \/ /\ Len(temperatureHistory.values) < cap
       /\ \E d \in Snapshots(temps \cup {NoTemp}, counts) : StatusUpdate(d)
    \/ /\ Len(temperatureHistory.values) < cap
       /\ ConnRoom
       /\ \E d \in Snapshots(temps \cup {NoTemp}, counts), c \in links, a \in BOOLEAN :
              PollStatus(d, c, a)
    \/ \E a \in BOOLEAN, t \in {NoTime, "t0"} : AcquisitionStatus(a, t)
    \/ \E on \in BOOLEAN : ControlAnswered(on)
    \/ PerformReset

\* A long run at one steady temperature, the device connected
TempNext == RealtimeStep(MaxTempSamples, {3650}, {250}, {TRUE})

\* temperatures (hundredths of a degree) and sample counts the status
\* scenarios draw their snapshots from
StatusTemps == {3650, 3700}

StatusCounts == {250}

\* The dashboard under status pushes, polls and data of a device that comes
\* and goes, with the removal timers of the connection-error notification
StatusNext ==
    \/ RealtimeStep(MaxStatusSamples, StatusTemps, StatusCounts, BOOLEAN)
    \/ \E i \in 1..MaxConnTimers : ErrorRemovalTimerFires(i)

\* One step of the connection-error notification: the device status changes
\* (pushed or polled, with acquisition idle), the user dismisses the
\* notification, or one of its timers fires.
ConnNext ==
    \/ ConnRoom /\ \E c \in BOOLEAN : DeviceStatus(c)
    \/ ConnRoom /\ \E d \in Snapshots({NoTemp}, {0}), c \in BOOLEAN : PollStatus(d, c, FALSE)
    \/ /\ nDismissals < MaxDismissals
       /\ Len(connTimers) + 2 <= MaxConnTimers
       /\ CloseConnectionError
    \/ \E i \in 1..MaxConnTimers : ErrorRemovalTimerFires(i)
    \/ CooldownTimerFires

----------------------------------------------------------------------------
\* The debug view

\* log entries: category and level; the message and the timestamp play no part
LogEntry(category, level) == [category |-> category, level |-> level]

LogEntries == {LogEntry("SYSTEM", "INFO"), LogEntry("ECG", "ERROR")}

\* the values of the two filter selects; "" is the entry for all
NoFilters == [category |-> "", level |-> ""]

FilterChoices == {[category |-> c, level |-> l] : c \in {"", "SYSTEM"}, l \in {"", "ERROR"}}

\* the text #debugLogCount has in the page as served
TemplateCount == ""

\* `(${debugLogs.length} entries)`
CountText(n) == "(" \o ToString(n) \o " entries)"

\* level.toLowerCase()
LowerCase(level) == IF level = "ERROR" THEN "error" ELSE "info"

\* the line addDebugLogToConsole creates for an entry
ConsoleLine(logEntry) ==
    [className |-> "console-line " \o LowerCase(logEntry.level),
     category  |-> logEntry.category]

\* the line clearDebugConsole leaves in the console
ClearedLine == [className |-> "console-line info", category |-> "Console cleared"]

\* the two tests addDebugLogToConsole returns on
PassesFilters(filters, logEntry) ==
    /\ ~(filters.category # "" /\ logEntry.category # filters.category)
    /\ ~(filters.level # "" /\ logEntry.level # filters.level)

\* the part of the view addDebugLogToConsole works on
DebugView(logs, console, count) == [logs |-> logs, console |-> console, count |-> count]

\* addDebugLogToConsole(logEntry, scroll) under the filters given
AddDebugLogToConsole(view, filters, logEntry) ==
    IF ~PassesFilters(filters, logEntry)
    THEN view
    ELSE DebugView(Append(view.logs, logEntry),
                   Append(view.console, ConsoleLine(logEntry)),
                   CountText(Len(view.logs) + 1))

\* addDebugLogToConsole called for each of the entries, in order
RECURSIVE AddEach(_, _, _)
AddEach(view, filters, entries) ==
    IF entries = <<>> THEN view
    ELSE AddEach(AddDebugLogToConsole(view, filters, Head(entries)), filters, Tail(entries))

\* renderDebugLogs(): empties the console and calls addDebugLogToConsole for
\* the entries debugLogs holds when forEach starts (forEach does not visit the
\* entries pushed meanwhile), then updateDebugLogCount
RenderDebugLogs(logs, filters, count) ==
    LET view == AddEach(DebugView(logs, <<>>, count), filters, logs)
    IN  DebugView(view.logs, view.console, CountText(Len(view.logs)))

\* the 'system_log' push: every registered listener calls addDebugLogToConsole
RECURSIVE Listeners(_, _, _, _)
Listeners(n, view, filters, logEntry) ==
    IF n = 0 THEN view
    ELSE Listeners(n - 1, AddDebugLogToConsole(view, filters, logEntry), filters, logEntry)

\* The log store of the server: the answers it may give to a query with the
\* filters given, at most MaxServerLogs entries that pass them.
ServerLogs(filters) ==
    {logs \in UNION {[1..n -> LogEntries] : n \in 0..MaxServerLogs} :
         \A k \in 1..Len(logs) : PassesFilters(filters, logs[k])}

\* loadDebugLogs() up to its fetch
LoadDebugLogs(filters) == logFetches' = Append(logFetches, filters)

\* showDebugMode()
ShowDebugMode ==
    /\ LoadDebugLogs(debugFilters)
    /\ systemLogListeners' = systemLogListeners + 1
    /\ UNCHANGED <<debugLogs, debugFilters, debugConsole, debugLogCount>>
    /\ UNCHANGED notDebug

\* applyDebugFilters()
ApplyDebugFilters(filters) ==
    /\ debugFilters' = filters
    /\ LoadDebugLogs(filters)
    /\ UNCHANGED <<debugLogs, debugConsole, debugLogCount, systemLogListeners>>
    /\ UNCHANGED notDebug

\* loadDebugLogs() after its fetch resolved with success and the logs given
LoadDebugLogsResponse(i, logs) ==
    /\ i \in 1..Len(logFetches)
    /\ logs \in ServerLogs(logFetches[i])
    /\ LET view == RenderDebugLogs(logs, debugFilters, debugLogCount)
       IN  /\ debugLogs' = view.logs
           /\ debugConsole' = view.console
           /\ debugLogCount' = view.count
    /\ logFetches' = RemoveAt(logFetches, i)
    /\ UNCHANGED <<debugFilters, systemLogListeners>>
    /\ UNCHANGED notDebug

\* loadDebugLogs() after its fetch failed or answered without success
LoadDebugLogsFailure(i) ==
    /\ i \in 1..Len(logFetches)
    /\ logFetches' = RemoveAt(logFetches, i)
    /\ UNCHANGED <<debugLogs, debugFilters, debugConsole, debugLogCount, systemLogListeners>>
    /\ UNCHANGED notDebug

\* socket 'system_log'
SystemLog(logEntry) ==
    /\ LET view == Listeners(systemLogListeners,
                             DebugView(debugLogs, debugConsole, debugLogCount),
                             debugFilters, logEntry)
       IN  /\ debugLogs' = view.logs
           /\ debugConsole' = view.console
           /\ debugLogCount' = view.count
    /\ UNCHANGED <<debugFilters, systemLogListeners, logFetches>>
    /\ UNCHANGED notDebug

\* clearDebugConsole(), confirmed in the modal
ClearDebugConsole ==
    /\ debugLogs' = <<>>
    /\ debugConsole' = <<ClearedLine>>
    /\ debugLogCount' = CountText(0)
    /\ UNCHANGED <<debugFilters, systemLogListeners, logFetches>>
    /\ UNCHANGED notDebug

DebugInit ==
    /\ debugLogs = <<>>
    /\ debugFilters = NoFilters
    /\ debugConsole = <<>>
    /\ debugLogCount = TemplateCount
    /\ systemLogListeners = 0
    /\ logFetches = <<>>

DebugNext ==
    \/ /\ systemLogListeners < MaxListeners
       /\ Len(logFetches) < MaxLogFetches
       /\ ShowDebugMode
    \/ Len(logFetches) < MaxLogFetches /\ \E f \in FilterChoices : ApplyDebugFilters(f)
    \/ \E i \in 1..MaxLogFetches : \E logs \in ServerLogs(NoFilters) :
           LoadDebugLogsResponse(i, logs)
    \/ \E i \in 1..MaxLogFetches : LoadDebugLogsFailure(i)
    \/ /\ Len(debugLogs) + systemLogListeners <= MaxDebugLogs
       /\ \E e \in LogEntries : SystemLog(e)
    \/ ClearDebugConsole

----------------------------------------------------------------------------
\* The model selection view

ModelTypes == {"ecg", "piezo"}

\* null in selectedModelFolder, activeModelData and active_model
NoFolder == "null"

\* The model folders of the server, per type.
ModelsOf(type) == IF type = "ecg" THEN {"ecg_v1", "ecg_v2"} ELSE {"piezo_v1"}

NoApplied == [type |-> "none", folder |-> NoFolder]

\* loadModels(type) up to its two fetches, awaited together
LoadModels(type) == modelFetches' = Append(modelFetches, type)

\* showModelsView()
ShowModelsView ==
    /\ LoadModels(currentModelType)
    /\ UNCHANGED <<currentModelType, availableModels, selectedModelFolder, activeModelData,
                   modelsList, btnApplyModelDisabled, activations, reloadTimers,
                   serverActive, lastApplied>>
    /\ UNCHANGED notModels

\* switchModelType(type)
SwitchModelType(type) ==
    /\ currentModelType' = type
    /\ LoadModels(type)
    /\ UNCHANGED <<availableModels, selectedModelFolder, activeModelData, modelsList,
                   btnApplyModelDisabled, activations, reloadTimers, serverActive,
                   lastApplied>>
    /\ UNCHANGED notModels

\* loadModels(type) after both fetches resolved and the list came with success;
\* for a type without an active model the server answers the second fetch
\* either without success or with a null active_model (answersNull).
\* renderModelsList takes the selection from the active model, if there is one.
LoadModelsResponse(i, answersNull) ==
    /\ i \in 1..Len(modelFetches)
    /\ LET type          == modelFetches[i]
           active_model  == serverActive[type]
           activeSuccess == active_model # NoFolder \/ answersNull
       IN  /\ availableModels' = ModelsOf(type)
           /\ activeModelData' = IF activeSuccess THEN active_model ELSE activeModelData
           /\ modelsList' = ModelsOf(type)
           /\ IF activeSuccess /\ active_model # NoFolder
              THEN /\ selectedModelFolder' = active_model
                   /\ btnApplyModelDisabled' = TRUE
              ELSE UNCHANGED <<selectedModelFolder, btnApplyModelDisabled>>
    /\ modelFetches' = RemoveAt(modelFetches, i)
    /\ UNCHANGED <<currentModelType, activations, reloadTimers, serverActive, lastApplied>>
    /\ UNCHANGED notModels

\* loadModels(type) after a fetch failed or the list came without success
LoadModelsFailure(i) ==
    /\ i \in 1..Len(modelFetches)
    /\ modelFetches' = RemoveAt(modelFetches, i)
    /\ UNCHANGED <<currentModelType, availableModels, selectedModelFolder, activeModelData,
                   modelsList, btnApplyModelDisabled, activations, reloadTimers,
                   serverActive, lastApplied>>
    /\ UNCHANGED notModels

\* selectModel(folder), from the radio button of a model in the list
SelectModel(folder) ==
    /\ folder \in modelsList
    /\ selectedModelFolder' = folder
    /\ btnApplyModelDisabled' = FALSE
    /\ UNCHANGED <<currentModelType, availableModels, activeModelData, modelsList,
                   modelFetches, activations, reloadTimers, serverActive, lastApplied>>
    /\ UNCHANGED notModels

\* the 'input' listener of the threshold slider
ThresholdInput ==
    /\ btnApplyModelDisabled' = FALSE
    /\ UNCHANGED <<currentModelType, availableModels, selectedModelFolder, activeModelData,
                   modelsList, modelFetches, activations, reloadTimers, serverActive,
                   lastApplied>>
    /\ UNCHANGED notModels

\* applyModelSelection() up to its fetch, from a click on the enabled button
ApplyModelSelection ==
    /\ ~btnApplyModelDisabled
    /\ IF selectedModelFolder = NoFolder
       THEN UNCHANGED <<activations, lastApplied>>
       ELSE LET body == [type |-> currentModelType, folder |-> selectedModelFolder]
            IN  /\ activations' = Append(activations, body)
                /\ lastApplied' = body
    /\ UNCHANGED <<currentModelType, availableModels, selectedModelFolder, activeModelData,
                   modelsList, btnApplyModelDisabled, modelFetches, reloadTimers,
                   serverActive>>
    /\ UNCHANGED notModels

\* applyModelSelection() after its fetch resolved.  The server activates a
\* folder it has under the type of the request and refuses any other; success
\* starts the 500 ms timer of the reload.
ActivateResponse(i) ==
    /\ i \in 1..Len(activations)
    /\ IF activations[i].folder \in ModelsOf(activations[i].type)
       THEN /\ serverActive' =
                   [serverActive EXCEPT ![activations[i].type] = activations[i].folder]
            /\ reloadTimers' = reloadTimers + 1
       ELSE UNCHANGED <<serverActive, reloadTimers>>
    /\ activations' = RemoveAt(activations, i)
    /\ UNCHANGED <<currentModelType, availableModels, selectedModelFolder, activeModelData,
                   modelsList, btnApplyModelDisabled, modelFetches, lastApplied>>
    /\ UNCHANGED notModels

\* the callback of the 500 ms timer: loadModels(currentModelType)
ReloadTimerFires ==
    /\ reloadTimers > 0
    /\ reloadTimers' = reloadTimers - 1
    /\ LoadModels(currentModelType)
    /\ UNCHANGED <<currentModelType, availableModels, selectedModelFolder, activeModelData,
                   modelsList, btnApplyModelDisabled, activations, serverActive,
                   lastApplied>>
    /\ UNCHANGED notModels

\* The page as served, the apply button disabled; the server has an active
\* ECG model and no active PIEZO model.
ModelsInit ==
    /\ currentModelType = "ecg"
    /\ availableModels = {}
    /\ selectedModelFolder = NoFolder
    /\ activeModelData = NoFolder
    /\ modelsList = {}
    /\ btnApplyModelDisabled = TRUE
    /\ modelFetches = <<>>
    /\ activations = <<>>
    /\ reloadTimers = 0
    /\ serverActive = [t \in ModelTypes |-> IF t = "ecg" THEN "ecg_v1" ELSE NoFolder]
    /\ lastApplied = NoApplied

ModelsNext ==
    \/ Len(modelFetches) < MaxModelFetches /\ ShowModelsView
    \/ Len(modelFetches) < MaxModelFetches /\ \E t \in ModelTypes : SwitchModelType(t)
    \/ \E i \in 1..MaxModelFetches, answersNull \in BOOLEAN :
           LoadModelsResponse(i, answersNull)
    \/ \E i \in 1..MaxModelFetches : LoadModelsFailure(i)
    \/ \E f \in ModelsOf("ecg") \cup ModelsOf("piezo") : SelectModel(f)
    \/ ThresholdInput
    \/ Len(activations) < MaxActivations /\ ApplyModelSelection
    \/ reloadTimers < MaxActivations /\ \E i \in 1..MaxActivations : ActivateResponse(i)
    \/ Len(modelFetches) < MaxModelFetches /\ ReloadTimerFires

----------------------------------------------------------------------------
vars == <<historyVars, notifVars, realtimeVars, connVars, debugVars, modelsVars>>

Init == HistoryInit /\ NotifInit /\ RealtimeInit /\ ConnInit /\ DebugInit /\ ModelsInit

\* The history view
Next == HistoryNext

Spec == Init /\ [][Next]_vars

\* The history view with racing answers
SpecRace == Init /\ [][RaceNext]_vars

\* The history view on the temperature of one session
SpecTempBrowse == Init /\ [][TempBrowseNext]_vars

\* The notification manager
SpecNotif == Init /\ [][NotifNext]_vars

\* The notification manager under payloads of every shape
SpecAnomaly == Init /\ [][AnomalyNext]_vars

\* The temperature history of the realtime dashboard
SpecTemp == Init /\ [][TempNext]_vars

\* The connection-error notification of the realtime dashboard
SpecConn == Init /\ [][ConnNext]_vars

\* The model selection view
SpecModels == Init /\ [][ModelsNext]_vars

\* The debug view
SpecDebug == Init /\ [][DebugNext]_vars

\* The realtime dashboard under status snapshots
SpecStatus == Init /\ [][StatusNext]_vars

----------------------------------------------------------------------------
\* Claims about the history cursor, checked under Spec

\* The last handler was the continuation of a fetch that returned data, and a
\* loaded dataset is on display.
FetchCompleted == chartsShown /\ lastEvent.kind \in {"loaded", "reloaded"}

\* The last handler sent a window request while a loaded dataset is on display.
RequestIssued == chartsShown /\ lastEvent.kind = "request"

\* C1: once an operation of the history view has completed (its window fetch
\* returned data and no other is outstanding), 0 <= currentPosition <=
\* maxSliderPosition and maxSliderPosition = max(0, totalDataCount -
\* currentWindowSize).
C1_CursorInvariant ==
    (FetchCompleted /\ inflight = <<>>) =>
        /\ 0 <= currentPosition
        /\ currentPosition <= maxSliderPosition
        /\ maxSliderPosition = Max(0, totalDataCount - currentWindowSize)

\* C2: once an operation has completed, the window lies inside the dataset:
\* currentPosition + currentWindowSize <= totalDataCount, except that a window
\* at least as large as the dataset sits at position 0.
C2_WindowInsideDataset ==
    (FetchCompleted /\ inflight = <<>>) =>
        IF currentWindowSize >= totalDataCount
        THEN currentPosition = 0
        ELSE currentPosition + currentWindowSize <= totalDataCount

\* C3: every window request carries a position inside
\* [0, max(0, totalDataCount - currentWindowSize)].
C3_RequestInRange ==
    RequestIssued =>
        /\ 0 <= lastEvent.req.position
        /\ lastEvent.req.position <= Max(0, totalDataCount - currentWindowSize)

\* C9: after every window fetch that returned total_count > 0, initial load or
\* reload, totalDataCount and maxSliderPosition are those of the response.
C9_CursorFromResponse ==
    FetchCompleted =>
        /\ totalDataCount = ServerWindow(lastEvent.req).total_count
        /\ maxSliderPosition = ServerWindow(lastEvent.req).max_position

\* C10: no navigation, resize or slider request carries a position reached in
\* one dataset to a session/signal other than the one the cursor was loaded
\* from: a change of selection discards the cursor.
C10_CursorDiscardedOnSelection ==
    (RequestIssued /\ lastEvent.req.kind = "reload" /\ lastEvent.req.position > 0) =>
        cursorOwner \in {NoOwner, <<lastEvent.req.session, lastEvent.req.signal>>}

----------------------------------------------------------------------------
\* Claims about the operations of the history view

\* C11: a fetch is never cancelled and every answer is applied when it
\* arrives: after the answer to a reload was handled, the window on the chart
\* (signal, index range, number of samples) is that answer's, whether or not a
\* fetch issued later had been answered before it.  Checked under SpecRace.
C11_LastArrivalRendered ==
    lastEvent.kind = "reloaded" =>
        LET data == ServerWindow(lastEvent.req)
        IN  /\ rendered.signal = lastEvent.req.signal
            /\ rendered.window_start = data.window_start
            /\ rendered.window_end = data.window_end
            /\ rendered.numSamples = data.window_end - data.window_start

\* both answers have arrived, the one to the fetch issued first arrived last,
\* and the chart shows its window and not the one the cursor is at
C11_StaleWindowShown ==
    /\ chartsShown
    /\ lastEvent.kind = "reloaded"
    /\ lateArrival
    /\ inflight = <<>>
    /\ rendered.window_start = lastEvent.req.position
    /\ rendered.window_start # currentPosition

\* C12: a failed window fetch leaves the cursor and the display as they were:
\* the handler of the failure changes none of currentPosition,
\* currentWindowSize, totalDataCount, maxSliderPosition, nor what is displayed.
\* Checked under Spec.
C12_FailureKeepsLastGood ==
    [][lastEvent'.kind \in {"loadFailed", "reloadFailed"} =>
           UNCHANGED <<currentPosition, currentWindowSize, totalDataCount,
                       maxSliderPosition, chartsShown, rendered>>]_vars

\* C13: navigateData moves by step = floor(currentWindowSize / 2): 'start'
\* gives 0, 'end' maxSliderPosition, 'prev' max(0, position - step) and 'next'
\* min(maxSliderPosition, position + step).  Checked under SpecRace.
C13_NavigateFormula ==
    lastGesture.op = "navigateData" =>
        LET step == lastGesture.size \div 2
            from == lastGesture.position
        IN  /\ currentWindowSize = lastGesture.size
            /\ lastGesture.direction = "start" => currentPosition = 0
            /\ lastGesture.direction = "end" => currentPosition = maxSliderPosition
            /\ lastGesture.direction = "prev" =>
                   currentPosition = (IF from - step > 0 THEN from - step ELSE 0)
            /\ lastGesture.direction = "next" =>
                   currentPosition = (IF from + step < maxSliderPosition
                                      THEN from + step ELSE maxSliderPosition)

\* 'next' whose step would pass maxSliderPosition stops there (the scenario
\* position = 9500, step 500, maxPosition = 9000)
C13_NextHeldAtEnd ==
    /\ lastGesture.op = "navigateData"
    /\ lastGesture.direction = "next"
    /\ lastGesture.position + lastGesture.size \div 2 > maxSliderPosition
    /\ maxSliderPosition > 0
    /\ currentPosition = maxSliderPosition

\* C14: changeWindowSize(-1) sets the window size to totalDataCount and the
\* position to 0; any other size becomes the window size, and the position
\* moves to max(0, totalDataCount - size) if position + size > totalDataCount
\* and stays otherwise.  Checked under SpecRace.
C14_ResizeFormula ==
    lastGesture.op = "changeWindowSize" =>
        IF lastGesture.value = -1
        THEN /\ currentWindowSize = totalDataCount
             /\ currentPosition = 0
        ELSE /\ currentWindowSize = lastGesture.value
             /\ currentPosition =
                    (IF lastGesture.position + lastGesture.value > totalDataCount
                     THEN (IF totalDataCount - lastGesture.value > 0
                           THEN totalDataCount - lastGesture.value ELSE 0)
                     ELSE lastGesture.position)

\* the full-dataset size was chosen on a loaded dataset away from its start
C14_FullDatasetChosen ==
    /\ lastGesture.op = "changeWindowSize"
    /\ lastGesture.value = -1
    /\ lastGesture.position > 0
    /\ totalDataCount > 0
    /\ currentWindowSize = totalDataCount

\* C15: after sliderNavigation on the dataset on display, 0 <= currentPosition
\* <= maxSliderPosition, whatever value the slider handed over.  Checked
\* under Spec.
C15_SliderClamped ==
    (/\ chartsShown
     /\ cursorOwner = <<selectedSession, signalSelect>>
     /\ lastGesture.op = "sliderNavigation") =>
        /\ 0 <= currentPosition
        /\ currentPosition <= maxSliderPosition

\* C16: navigateData('next') right after navigateData('end') leaves the
\* position where 'end' put it.  Checked under SpecRace, where the second
\* call need not wait for the answer to the first.
C16_EndThenNext ==
    (lastGesture.direction = "next" /\ lastGesture.after = "end") =>
        currentPosition = lastGesture.position

\* 'next' came right after 'end' on a dataset larger than the window
C16_NextAtEnd ==
    /\ lastGesture.direction = "next"
    /\ lastGesture.after = "end"
    /\ chartsShown
    /\ currentWindowSize > 1
    /\ maxSliderPosition > 0
    /\ currentPosition = maxSliderPosition

\* C17: currentWindowSize is a positive integer in every reachable state.
\* Checked under Spec.
C17_WindowSizePositive == currentWindowSize > 0

----------------------------------------------------------------------------
\* Claims about the notification buffer, checked under SpecNotif

Retained == Range(notifications)

\* the (at most) maxNotifications entries pushed last
MostRecent == {n \in 1..totalCount : n > totalCount - maxNotifications}

\* C4: the buffer never holds more than maxNotifications entries, whatever
\* the interleaving of pushes, closes, their delayed removals and clear-all.
C4_BufferBounded == Len(notifications) <= maxNotifications

\* a full buffer after an eviction, while a closed entry awaits its removal
C4_FullWhileClosing ==
    /\ Len(notifications) = maxNotifications
    /\ totalCount > maxNotifications
    /\ nCloses > 0
    /\ removalTimers # <<>>

\* C5: after N > maxNotifications pushes with no close and no clear-all, the
\* buffer holds exactly the maxNotifications entries pushed last, in push order.
C5_KeepsMostRecent ==
    (nCloses = 0 /\ nClears = 0 /\ totalCount > maxNotifications) =>
        notifications = [k \in 1..maxNotifications |-> totalCount - maxNotifications + k]

\* eleven pushes: ten entries are kept and the first one is gone
C5_EleventhPush ==
    /\ nCloses = 0
    /\ nClears = 0
    /\ totalCount = maxNotifications + 1
    /\ Len(notifications) = maxNotifications
    /\ 1 \notin Retained

\* C6 as claimed: the retained entries are the maxNotifications pushed last
\* minus the explicitly removed ones (an entry whose close was clicked may
\* still be there until its removal completes).
C6_MostRecentMinusRemoved ==
    /\ (MostRecent \ (closeClicks \cup cleared)) \subseteq Retained
    /\ Retained \subseteq (MostRecent \ (spliced \cup cleared))

\* C6 as amended: the retained entries are in push order, include every one of
\* the maxNotifications pushed last that was neither closed nor cleared, and
\* include no entry that was cleared or whose removal has completed; entries
\* older than the maxNotifications pushed last may stay, since eviction goes
\* by the length of the buffer.
C6_RetainsRecentUnremoved ==
    /\ (MostRecent \ (closeClicks \cup cleared)) \subseteq Retained
    /\ Retained \subseteq ((1..totalCount) \ (spliced \cup cleared))
    /\ \A i, j \in 1..Len(notifications) : i < j => notifications[i] < notifications[j]

\* after a completed close, a push came without an eviction: an entry older
\* than the maxNotifications pushed last is still retained
C6_OlderEntryKept ==
    /\ spliced # {}
    /\ \E n \in Retained : n \notin MostRecent

BadgeShows(n) ==
    IF counter.exists
    THEN counter.text = ToString(n) /\ counter.shown = (n # 0)
    ELSE n = 0

\* C7: after every push, every completed removal of a closed entry and every
\* clear-all, the badge shows the number of entries in the buffer.
C7_BadgeShowsLength ==
    lastNotifOp \in {"push", "removed", "clear"} => BadgeShows(Len(notifications))

\* C18: an entry leaves the buffer only by the eviction of the oldest entry on
\* a push into a full buffer, by the removal that follows a click on its own
\* close button, or by clear-all; no timer removes an entry that was not closed.
C18_LeavesOnlyExplicitly ==
    [][\A n \in Range(notifications) \ Range(notifications') :
           \/ /\ lastNotifOp' = "push"
              /\ n = Head(notifications)
              /\ Len(notifications) = maxNotifications
           \/ /\ lastNotifOp' = "removed"
              /\ n \in closeClicks
           \/ lastNotifOp' = "clear"]_vars

\* with nothing closed or cleared, the removal timer of an evicted entry has
\* fired and the buffer is still full
C18_TimerFiredNothingLeft ==
    /\ lastNotifOp = "timer"
    /\ nCloses = 0
    /\ nClears = 0
    /\ totalCount > maxNotifications
    /\ Len(notifications) = maxNotifications

\* C19 as claimed: clearAll empties the buffer and hides the badge in one step
\* and leaves no removal timer pending.
C19_NoTimerAfterClear ==
    lastNotifOp = "clear" =>
        /\ notifications = <<>>
        /\ ~counter.shown
        /\ removalTimers = <<>>

\* C19 as amended: clearAll empties the buffer and hides the badge in one
\* step; the removal timers it starts, one per cleared entry still attached,
\* and those already pending stay pending, and when the timer of a cleared
\* entry fires it detaches that entry's element and changes neither the buffer
\* nor the badge, also when entries were pushed after the clear.
C19_ClearedTimersOnlyDetach ==
    /\ [](lastNotifOp = "clear" =>
              /\ notifications = <<>>
              /\ ~counter.shown
              /\ \A n \in cleared \cap inDom : n \in Range(removalTimers))
    /\ [][(RemovalTimerFires /\ Head(removalTimers) \in cleared) =>
              /\ notifications' = notifications
              /\ counter' = counter
              /\ inDom' = inDom \ {Head(removalTimers)}]_vars

\* the timer of a cleared entry has fired after a new entry was pushed, and
\* the new entry is still in the buffer
C19_TimerAfterClearAndPush ==
    /\ lastNotifOp = "timer"
    /\ nClears > 0
    /\ nCloses = 0
    /\ totalCount <= maxNotifications
    /\ notifications # <<>>
    /\ Range(notifications) \cap cleared = {}

----------------------------------------------------------------------------
\* Claims about the temperature history, checked under SpecTemp

----------------------------------------------------------------------------
\* Claims about the connection-error notification, checked under SpecConn

\* C20: the cooldown timer of an earlier dismissal does not act on a later
\* one: when the timer set at the dismissal of one element fires while the
\* cooldown started by dismissing a later element is running, the cooldown
\* stays on and the notification stays dismissed.
C20_StaleTimerHarmless ==
    (firedFor # 0 /\ cooldownOwner # 0 /\ firedFor # cooldownOwner) =>
        /\ connectionErrorCooldown
        /\ ~connectionErrorShown

\* the anomaly pushed last lacks one of the numbers its type shows
MissingNumber(a) ==
    IF a.type = "temp"
    THEN a.temperature = Undefined \/ a.threshold = Undefined
    ELSE a.reconstruction_error = Undefined \/ a.threshold = Undefined

\* C23: an anomaly of type ecg, piezo or temp that lacks a numeric field is
\* not rejected: its notification is appended, once, and shows 0 in place of
\* each missing number.
C23_MissingFieldsShownAsZero ==
    (lastNotifOp = "push" /\ MissingNumber(lastShown.anomaly)) =>
        LET a == lastShown.anomaly
            d == lastShown.details
        IN  /\ Last(notifications) = totalCount
            /\ Cardinality({k \in 1..Len(notifications) : notifications[k] = totalCount}) = 1
            /\ totalCount \in inDom
            /\ a.type = "temp" =>
                   /\ a.temperature = Undefined => d[1].value = "0.0"
                   /\ a.threshold = Undefined => d[2].value = "0.0"
            /\ a.type # "temp" =>
                   /\ a.reconstruction_error = Undefined => d[1].value = "0.0000"
                   /\ a.threshold = Undefined => d[2].value = "0.0000"

\* the second anomaly pushed is a piezo one without error and threshold
C23_BarePiezoPushed ==
    /\ lastNotifOp = "push"
    /\ totalCount = 2
    /\ lastShown.anomaly.type = "piezo"
    /\ lastShown.anomaly.reconstruction_error = Undefined
    /\ lastShown.anomaly.threshold = Undefined
    /\ Len(notifications) = 2

\* C25: a 'system_log' push adds exactly one entry to debugLogs and one line
\* to the console, however often showDebugMode was called before.
C25_OneEntryPerPush ==
    [][\A e \in LogEntries :
           (SystemLog(e) /\ systemLogListeners >= 1 /\ PassesFilters(debugFilters, e))
               => /\ Len(debugLogs') = Len(debugLogs) + 1
                  /\ Len(debugConsole') = Len(debugConsole) + 1]_vars

\* C29: when loadDebugLogs receives n entries, debugLogs holds exactly those
\* n, and the count displayed is the number of lines in the console.
C29_LoadedLogsCounted ==
    [][\A i \in 1..MaxLogFetches : \A logs \in ServerLogs(NoFilters) :
           LoadDebugLogsResponse(i, logs)
               => /\ debugLogs' = logs
                  /\ debugLogCount' = CountText(Len(debugConsole'))]_vars

\* C28: applyModelSelection posts a folder of the current model type's list;
\* and once the fetches of the lists have been answered, selectedModelFolder
\* and activeModelData name no model of the other type -- also after
\* switchModelType, with answers out of order or a type without active model.
C28_OwnTypeOnly ==
    /\ lastApplied # NoApplied => lastApplied.folder \in ModelsOf(lastApplied.type)
    /\ (modelFetches = <<>> /\ reloadTimers = 0 /\ activations = <<>>)
           => /\ selectedModelFolder \in ModelsOf(currentModelType) \cup {NoFolder}
              /\ activeModelData \in ModelsOf(currentModelType) \cup {NoFolder}

\* a 300 ms removal timer is pending for the element given
BeingRemoved(element) ==
    \E k \in 1..Len(connTimers) : connTimers[k] = ConnTimer("remove", element)

\* C26: connectionErrorShown = true means the notification's element is on
\* the page and is not being removed; and with the device reported
\* disconnected, no cooldown running and every removal timer fired, the
\* notification is on the page -- also when 'connected' and 'disconnected'
\* arrive less than 300 ms apart.
C26_ShownMeansOnScreen ==
    /\ connectionErrorShown => (errorElement # 0 /\ ~BeingRemoved(errorElement))
    /\ (/\ deviceStatus = "Disconnected"
        /\ ~connectionErrorCooldown
        /\ \A k \in 1..Len(connTimers) : connTimers[k].kind # "remove")
           => errorElement # 0

----------------------------------------------------------------------------
\* Claims about the time range of the history chart

\* C24: in the proportional mode of TEMP, a window at position 0 that holds
\* the whole dataset is labelled from the session's start to the session's
\* start plus its duration.
C24_WholeDatasetSpansSession ==
    (/\ chartsShown
     /\ rendered.signal = "TEMP"
     /\ rendered.labelPosition = 0
     /\ rendered.numSamples = rendered.total)
        => /\ rendered.firstSampleMs = SessionStartMs(rendered.session)
           /\ rendered.lastSampleMs =
                  SessionStartMs(rendered.session)
                      + (SessionEndMs(rendered.session) - SessionStartMs(rendered.session))

\* the whole temperature dataset of s1 is drawn from position 0
C24_WholeTemperatureDrawn ==
    /\ chartsShown
    /\ rendered.signal = "TEMP"
    /\ rendered.labelPosition = 0
    /\ rendered.numSamples = rendered.total
    /\ rendered.total = ServerCount("s1", "TEMP")
    /\ lastEvent.kind \in {"loaded", "reloaded"}

\* C27: the time range written under a window describes that window: the
\* position its start and end are computed from is the window_start of the
\* response drawn, also when responses arrive out of order or the user
\* navigates again before a response arrives.
C27_LabelDescribesWindow ==
    (chartsShown /\ lastEvent.kind \in {"loaded", "reloaded"})
        => rendered.labelPosition = rendered.window_start

----------------------------------------------------------------------------
\* Claims about the statistics of the realtime dashboard, checked under
\* SpecStatus

\* what a status snapshot is projected on: the statistics, the temperature
\* history, the device indicator and the update flags
statusView == <<frozenStats, lastTemperature, temperatureHistory, deviceStatus,
                shouldUpdateCharts, shouldUpdateCounters>>

\* C21: a status snapshot applied twice in a row, by the push or by the poll,
\* leaves the statistics, the temperature history, the indicators and the
\* flags as the first application left them: in the state a handler has
\* produced, the same handler on the same snapshot changes none of them.
C21_SnapshotIdempotent ==
    [][\A d \in Snapshots(StatusTemps \cup {NoTemp}, StatusCounts) :
           /\ StatusUpdate(d) => (ENABLED (StatusUpdate(d) /\ UNCHANGED statusView))'
           /\ \A c \in BOOLEAN, a \in BOOLEAN :
                  PollStatus(d, c, a) =>
                      (ENABLED (PollStatus(d, c, a) /\ UNCHANGED statusView))']_vars

\* C22: the values and the times of the temperature history have the same
\* length, and the i-th entry (counting from 0) has the time 2*i minutes,
\* whatever TEMP data, status snapshots and resets came before.
C22_TimesOnTwoMinuteGrid ==
    /\ Len(temperatureHistory.values) = Len(temperatureHistory.times)
    /\ \A i \in 1..Len(temperatureHistory.times) :
           temperatureHistory.times[i] = 2 * (i - 1)

\* the history is full to the bound, by the status path (lastTemperature is
\* set) and by the data path (two equal neighbours, which the status path
\* never stores)
C22_BothPathsPushed ==
    /\ Len(temperatureHistory.values) = MaxStatusSamples
    /\ lastTemperature # NoTemp
    /\ \E i \in 1..(MaxStatusSamples - 1) :
           temperatureHistory.values[i] = temperatureHistory.values[i + 1]
    /\ temperatureHistory.times[MaxStatusSamples] = 2 * (MaxStatusSamples - 1)

\* acquisition is stopped: both update flags are off
Stopped == ~shouldUpdateCounters /\ ~shouldUpdateCharts

\* the step is a status push or the arrival of a poll result
StatusEvent ==
    \E d \in Snapshots(StatusTemps \cup {NoTemp}, StatusCounts) :
        \/ StatusUpdate(d)
        \/ \E c \in BOOLEAN, a \in BOOLEAN : PollStatus(d, c, a)

\* C30: while acquisition is stopped no incoming event (status push, poll
\* result, data of any signal) changes frozenStats, lastTemperature or the
\* temperature history.
C30_StoppedFreezesAll ==
    [][(Stopped /\ (StatusEvent \/ \E t \in StatusTemps : DataUpdateTemp(<<t>>)))
          => UNCHANGED <<frozenStats, lastTemperature, temperatureHistory>>]_vars

\* C30, as the code has it: while acquisition is stopped a status push or a
\* poll result changes none of frozenStats, lastTemperature and the
\* temperature history; TEMP data is drawn whatever the flags are, and appends
\* its sample to the history without touching the other two.
C30_StoppedFreezesStatus ==
    [][Stopped =>
          /\ StatusEvent => UNCHANGED <<frozenStats, lastTemperature, temperatureHistory>>
          /\ \A t \in StatusTemps :
                 DataUpdateTemp(<<t>>) =>
                     /\ UNCHANGED <<frozenStats, lastTemperature>>
                     /\ temperatureHistory'.values = Append(temperatureHistory.values, t)
                     /\ Len(temperatureHistory'.times) = Len(temperatureHistory.times) + 1]_vars

\* stopped, statistics never applied since the last reset, and yet a sample in
\* the history: TEMP data arrived and no status snapshot was let through
C30_SampleWhileStopped ==
    /\ Stopped
    /\ frozenStats = InitialStats
    /\ lastTemperature = NoTemp
    /\ temperatureHistory.values # <<>>

====
